---- MODULE Spec2Model ----
(***************************************************************************)
(* CalAnywhere: the double-opt-in confirmation workflow of the backend     *)
(* (routes/pages.ts with the pending-request, page and booking stores),    *)
(* the slot generator of the public scheduling page (SchedulingPage.tsx),  *)
(* the calendar read path (services/calendar.ts) and the page create and   *)
(* update endpoints (routes/pages.ts, routes/dashboard.ts).                *)
(*                                                                         *)
(* Time is counted in minutes (one unit = 60000 ms of Date.now()).         *)
(***************************************************************************)
EXTENDS Integers, Sequences, FiniteSets, TLC

\* ------------------------------------------------------------------ bounds
MaxClock == 61          \* the last instant the clock reaches
MaxTokens == 1          \* pending requests ever created (randomUUID tokens)

Handlers == {1, 2}              \* slots for the requests in flight at once
Instants == {0, 1, 60, MaxClock} \* the instants at which the clock is read
ExpiryChoices == {1, 24}        \* expiryHours asked of CreatePage (of ALLOWED_EXPIRY_HOURS)
PageSlugs == {"p"}              \* slugs generateSlug hands out
Slugs == PageSlugs \cup {"q"}   \* slugs a URL may carry; "q" is never a page's

MaxRangeDays == 2       \* largest dateRangeDays of a page viewed
MaxEvents == 2          \* events in a calendar feed
MaxPages == 2           \* scheduling pages ever stored

\* ------------------------------------------------------- program constants
TTL_MS == 60                    \* 60 * 60 * 1000 ms, in minutes
MinutesPerDay == 1440           \* 24 * 60 * 60 * 1000 ms, in minutes
WorkdayStartHour == 9           \* new Date(y, m, d, 9, 0, 0, 0)
WorkdayEndHour == 17            \* new Date(y, m, d, 17, 0, 0, 0)
HoursPerDay == 24               \* toISOString().split("T")[0]: the UTC date of an instant
FREE_MAX_PAGES == 1             \* const FREE_MAX_PAGES = 1

Tokens == 1..MaxTokens

VARIABLES
    usePg,      \* getPool() returned a pool: PostgreSQL stores, else in-memory
    now,        \* Date.now() / NOW(), minutes
    pages,      \* pagesStore: slug -> [expiresAt]
    slugsUsed,  \* history: slugs generateSlug has handed out
    requests,   \* pendingRequestsStore: token -> PendingRequest
    issued,     \* history: token -> createdAt of every request ever created
    bookings,   \* bookingsStore: sequence of [pageId, token]
    outbox,     \* history: emails delivered, [kind, token]
    purged,     \* history: tokens the purge timer removed
    hs          \* handler -> its position and locals

VARIABLES
    page,       \* SchedulingPage: the PageData fetched from the server, or NoPage
    viewNow,    \* allSlots: `now`, minutes since a Monday 00:00 local time
    dayOffset,  \* allSlots: the while loop's counter
    slotStart,  \* allSlots: the for loop's counter
    slots,      \* allSlots: the slots of the day in hand
    allSlots,   \* allSlots: the map built, entries [date, slots] in insertion order
    gpc         \* allSlots: "nopage", "day" (while loop), "slot" (for loop), "done"

slotVars == <<page, viewNow, dayOffset, slotStart, slots, allSlots, gpc>>

VARIABLES
    startDate,  \* fetchAndParseCalendar: the window's start, hours since a Monday 00:00 UTC
    endDate,    \* fetchAndParseCalendar: the window's end
    parseNow,   \* the clock when the feed's rules are parsed
    feed,       \* Object.values(parsed): the events of the feed
    idx,        \* the for loop's position in feed
    busySlots,  \* fetchAndParseCalendar: busySlots
    cand,       \* rrule.between: the occurrence the iteration has come to
    left,       \* rrule.between: occurrences left of the rule's count (0: no count)
    occ,        \* rrule.between: the occurrences accepted so far
    result,     \* the busy list returned to the page
    logged,     \* history: positions of the events whose rule error was logged
    cpc         \* "idle", "loop", "iter", "done"

calVars == <<startDate, endDate, parseNow, feed, idx, busySlots, cand, left, occ,
             result, logged, cpc>>

VARIABLES
    stored,     \* pagesStore / scheduling_pages with page_calendars: page id -> row
    safe,       \* history: the URLs isSafeToFetch has returned true for
    fetched,    \* history: the network fetches of the step just taken, [url, route, checked]
    creators,   \* POST /api/dashboard/pages: handler -> its position and locals
    patch       \* PATCH /api/dashboard/pages/:id: its position, locals and transaction

dashVars == <<stored, safe, fetched, creators, patch>>

wfVars == <<usePg, now, pages, slugsUsed, requests, issued, bookings, outbox, purged, hs>>

\* ------------------------------------------------------------- responses
R404 == "404 link expired or does not exist"
R202 == "202 verification_sent"
R400 == "400 validation error"
R502 == "502 could not send verification email"
RLinkExpired == "200 This link has expired or has already been used."
RPageExpired == "200 The scheduling page has expired."
RConfirmed == "200 Your appointment request has been sent!"
RError == "502 Something went wrong."

\* `undefined`; of a PendingRequest the handlers read the slug only
NoRequest == [slug |-> "undefined"]

Idle ==
    [pc |-> "idle", kind |-> "none", slug |-> "", token |-> 0,
     pending |-> NoRequest, page |-> FALSE, pageId |-> "",
     resp |-> "none",
     \* history, read by the properties only: where the token stood at lookup
     tokenCase |-> "none", old |-> FALSE]

\* A handler that has answered keeps its answer until it takes the next request.
Done(kind, resp) == [Idle EXCEPT !.pc = "done", !.kind = kind, !.resp = resp]

Free(h) == hs[h].pc \in {"idle", "done"}

\* An incoming request is taken by the first slot that is free.
Accepts(h) == Free(h) /\ \A g \in Handlers : g < h => ~Free(g)

Remove(f, k) == [x \in DOMAIN f \ {k} |-> f[x]]
Put(f, k, v) == [x \in DOMAIN f \cup {k} |-> IF x = k THEN v ELSE f[x]]

\* ------------------------------------------------------------ page store
\* The lookups with the instant of expiry itself counted as live.
PageFoundAtExpiry(slug) ==
    /\ slug \in DOMAIN pages
    /\ IF usePg THEN pages[slug].expiresAt >= now
                ELSE ~(now > pages[slug].expiresAt)

\* InMemoryPagesStore.get: `Date.now() >= page.expiresAt`;
\* PgPagesStore.get: `sp.expires_at > NOW()`.
PageFound(slug) ==
    /\ slug \in DOMAIN pages
    /\ IF usePg THEN pages[slug].expiresAt > now
                ELSE ~(now >= pages[slug].expiresAt)

\* The in-memory get deletes the expired page it finds; the SELECT deletes nothing.
PagesAfterGet(slug) ==
    IF ~usePg /\ slug \in DOMAIN pages /\ now >= pages[slug].expiresAt
    THEN Remove(pages, slug)
    ELSE pages

\* purgeExpired: in memory `now >= page.expiresAt`, PostgreSQL `expires_at < NOW()`.
PagePurgeable(p) == IF usePg THEN p.expiresAt < now ELSE now >= p.expiresAt

\* ------------------------------------------------- pending-request store
\* The age test with the operands of the subtraction exchanged.
InMemoryExpiredSwapped(r) == r.createdAt - now > TTL_MS

\* InMemoryPendingRequestsStore.get: `Date.now() - request.createdAt > TTL_MS`.
InMemoryExpired(r) == now - r.createdAt > TTL_MS

\* The liveness test against the row's creation time instead of NOW().
PgLiveSinceCreation(r) == r.expiresAt > r.createdAt

\* PgPendingRequestsStore: `expires_at > NOW()`.
PgLive(r) == r.expiresAt > now

\* create: the request as stored (the PostgreSQL row carries expires_at).
NewRequest(slug) ==
    IF usePg THEN [slug |-> slug, createdAt |-> now, expiresAt |-> now + TTL_MS]
             ELSE [slug |-> slug, createdAt |-> now]

\* What get(token) returns in memory: the request, or NoRequest for undefined.
InMemoryGet(token) ==
    IF token \in DOMAIN requests /\ ~InMemoryExpired(requests[token])
    THEN [slug |-> requests[token].slug]
    ELSE NoRequest

\* The map after get(token): an expired request is deleted on sight.
InMemoryAfterGet(token) ==
    IF token \in DOMAIN requests /\ InMemoryExpired(requests[token])
    THEN Remove(requests, token)
    ELSE requests

\* DELETE ... WHERE token = $1 AND expires_at > NOW() RETURNING ...
PgGetAndDelete(token) ==
    IF token \in DOMAIN requests /\ PgLive(requests[token])
    THEN [slug |-> requests[token].slug]
    ELSE NoRequest

PgAfterGetAndDelete(token) ==
    IF token \in DOMAIN requests /\ PgLive(requests[token])
    THEN Remove(requests, token)
    ELSE requests

\* The purge tests with their comparisons turned round.
RequestPurgeableSwapped(r) ==
    IF usePg THEN r.expiresAt > now ELSE r.createdAt - now > TTL_MS

\* purgeExpired: in memory `now - createdAt > TTL_MS`, PostgreSQL `expires_at < NOW()`.
RequestPurgeable(r) ==
    IF usePg THEN r.expiresAt < now ELSE now - r.createdAt > TTL_MS

\* history: where a token stands when a Confirm looks it up
TokenCase(token) ==
    IF token \notin DOMAIN issued THEN "never"
    ELSE IF token \notin DOMAIN requests THEN "gone"
    ELSE "stored"

\* history: the request of this token is older than the TTL
Old(token) == token \in DOMAIN issued /\ now - issued[token] > TTL_MS

NoPage == [slug |-> "null"]

\* A dashboard create handler that holds no request, and the PATCH handler at
\* rest.
NoCreate == [pc |-> "idle", body |-> <<>>]

NoPatch == [pc |-> "idle", id |-> 0, body |-> <<>>, row |-> <<>>, resp |-> "none"]

\* ------------------------------------------------------------------ Init
Init ==
    /\ usePg \in BOOLEAN
    /\ now = 0
    /\ pages = <<>>
    /\ slugsUsed = {}
    /\ requests = <<>>
    /\ issued = <<>>
    /\ bookings = <<>>
    /\ outbox = {}
    /\ purged = {}
    /\ hs = [h \in Handlers |-> Idle]
    /\ page = NoPage
    /\ viewNow = 0
    /\ dayOffset = 0
    /\ slotStart = 0
    /\ slots = <<>>
    /\ allSlots = <<>>
    /\ gpc = "nopage"
    /\ startDate = 0
    /\ endDate = 0
    /\ parseNow = 0
    /\ feed = <<>>
    /\ idx = 0
    /\ busySlots = <<>>
    /\ cand = 0
    /\ left = 0
    /\ occ = <<>>
    /\ result = <<>>
    /\ logged = {}
    /\ cpc = "idle"
    /\ stored = <<>>
    /\ safe = {}
    /\ fetched = {}
    /\ creators = [h \in Handlers |-> NoCreate]
    /\ patch = NoPatch

\* ----------------------------------------------------------------- clock
Tick(t) ==
    /\ t > now
    /\ now' = t
    /\ UNCHANGED <<usePg, pages, slugsUsed, requests, issued, bookings, outbox, purged, hs>>

\* ----------------------------------------------------- POST /api/pages
\* The page is stored under a fresh slug with expiresAt = now + ttlHours hours.
CreatePage(slug, ttlHours) ==
    /\ slug \in PageSlugs \ slugsUsed
    /\ pages' = Put(pages, slug, [expiresAt |-> now + ttlHours * 60])
    /\ slugsUsed' = slugsUsed \cup {slug}
    /\ UNCHANGED <<usePg, now, requests, issued, bookings, outbox, purged, hs>>

\* ---------------------------------------------------------- purge timers
PurgePages ==
    /\ pages' = [s \in {x \in DOMAIN pages : ~PagePurgeable(pages[x])} |-> pages[s]]
    /\ UNCHANGED <<usePg, now, slugsUsed, requests, issued, bookings, outbox, purged, hs>>

PurgeRequests ==
    /\ requests' = [t \in {x \in DOMAIN requests : ~RequestPurgeable(requests[x])} |-> requests[t]]
    /\ purged' = purged \cup {x \in DOMAIN requests : RequestPurgeable(requests[x])}
    /\ UNCHANGED <<usePg, now, pages, slugsUsed, issued, bookings, outbox, hs>>

\* ------------------------------------------- POST /api/pages/:slug/requests
\* A request body: string fields by their length, the email as its characters.
ValidEmail == <<"a", "@", "b", ".", "c">>
Emails ==
    { <<>>, ValidEmail, <<"a", "@", "b">>, <<"a", " ", "@", "b", ".", "c">>,
      <<"@", "b", ".", "c">>, <<"a", "@", "b", ".">>, <<"a", "@", "@", "b", ".", "c">> }
ValidBody ==
    [honeypot |-> FALSE, nameLen |-> 2, email |-> ValidEmail, reasonLen |-> 10,
     notesLen |-> 0, hasTimes |-> TRUE]
Bodies ==
    {ValidBody}
    \cup {[ValidBody EXCEPT !.honeypot = TRUE]}
    \cup {[ValidBody EXCEPT !.honeypot = TRUE, !.nameLen = 0]}
    \cup {[ValidBody EXCEPT !.nameLen = n] : n \in {0, 1, 100, 101}}
    \cup {[ValidBody EXCEPT !.email = e] : e \in Emails}
    \cup {[ValidBody EXCEPT !.reasonLen = n] : n \in {0, 9, 500, 501}}
    \cup {[ValidBody EXCEPT !.notesLen = n] : n \in {500, 501}}
    \cup {[ValidBody EXCEPT !.hasTimes = FALSE]}

\* [^\s@]: any character but white space and "@"
Plain(c) == c \notin {" ", "@"}

\* EMAIL_RE = /^[^\s@]+@[^\s@]+\.[^\s@]+$/
EMAIL_RE(s) ==
    \E i \in 2..Len(s) :
        /\ s[i] = "@"
        /\ \E j \in (i + 2)..(Len(s) - 1) :
              /\ s[j] = "."
              /\ \A k \in 1..Len(s) : (k # i /\ k # j) => Plain(s[k])

\* The handler's checks without the three length checks.
SubmitVerdictNoLengths(b) ==
    IF b.honeypot THEN "honeypot"
    ELSE IF b.nameLen = 0 \/ b.email = <<>> \/ b.reasonLen = 0 \/ ~b.hasTimes THEN "missing"
    ELSE IF ~EMAIL_RE(b.email) THEN "email"
    ELSE "ok"

\* The handler's checks, in its order; "ok" when the body passes them all.
SubmitVerdict(b) ==
    IF b.honeypot THEN "honeypot"
    ELSE IF b.nameLen = 0 \/ b.email = <<>> \/ b.reasonLen = 0 \/ ~b.hasTimes THEN "missing"
    ELSE IF ~EMAIL_RE(b.email) THEN "email"
    ELSE IF b.nameLen < 2 \/ b.nameLen > 100 THEN "name"
    ELSE IF b.reasonLen < 10 \/ b.reasonLen > 500 THEN "reason"
    ELSE IF b.notesLen # 0 /\ b.notesLen > 500 THEN "notes"
    ELSE "ok"

\* history: a body the handler is to refuse or drop, in the words of its messages
BadBody(b) ==
    \/ b.honeypot
    \/ b.nameLen = 0 \/ b.email = <<>> \/ b.reasonLen = 0 \/ ~b.hasTimes
    \/ ~EMAIL_RE(b.email)
    \/ ~(b.nameLen \in 2..100)
    \/ ~(b.reasonLen \in 10..500)
    \/ b.notesLen > 500

\* `const page = await pagesStore.get(slug); if (!page) return 404`
SubmitLookup(h, slug) ==
    /\ Accepts(h)
    /\ pages' = PagesAfterGet(slug)
    /\ hs' = [hs EXCEPT ![h] =
                IF PageFound(slug)
                THEN [Idle EXCEPT !.pc = "s_validate", !.kind = "submit", !.slug = slug,
                                  !.page = TRUE]
                ELSE Done("submit", R404)]
    /\ UNCHANGED <<usePg, now, slugsUsed, requests, issued, bookings, outbox, purged>>

\* The honeypot and validation checks, then pendingRequestsStore.create.
SubmitValidate(h, b) ==
    /\ hs[h].pc = "s_validate"
    /\ LET v == SubmitVerdict(b)
           token == Cardinality(DOMAIN issued) + 1
       IN  IF v = "ok"
           THEN /\ token <= MaxTokens
                /\ requests' = Put(requests, token, NewRequest(hs[h].slug))
                /\ issued' = Put(issued, token, now)
                /\ hs' = [hs EXCEPT ![h].pc = "s_send", ![h].token = token]
           ELSE /\ hs' = [hs EXCEPT ![h] =
                                Done("submit", IF v = "honeypot" THEN R202 ELSE R400)]
                /\ UNCHANGED <<requests, issued>>
    /\ UNCHANGED <<usePg, now, pages, slugsUsed, bookings, outbox, purged>>

\* Submit with the send's failure swallowed.
SubmitResponseSwallowed(sent) == R202

\* What Submit answers once sendVerificationEmail has returned or thrown.
SubmitResponse(sent) == IF sent THEN R202 ELSE R502

\* `await sendVerificationEmail(...)`: sendViaMailgun throws when the post fails.
SubmitSend(h, sent) ==
    /\ hs[h].pc = "s_send"
    /\ outbox' = IF sent THEN outbox \cup {[kind |-> "verification", token |-> hs[h].token]}
                 ELSE outbox
    /\ hs' = [hs EXCEPT ![h] = Done("submit", SubmitResponse(sent))]
    /\ UNCHANGED <<usePg, now, pages, slugsUsed, requests, issued, bookings, purged>>

\* ------------------------- GET /api/pages/:slug/requests/:token/confirm
Found(r) == r # NoRequest

\* pendingRequestsStore.getAndDelete(token), up to its first suspension: in
\* memory that is get(token), whose result is held across `await`; PostgreSQL
\* runs the one DELETE ... RETURNING statement.
ConfirmGet(h, slug, token) ==
    /\ Accepts(h)
    /\ LET r == IF usePg THEN PgGetAndDelete(token) ELSE InMemoryGet(token)
       IN  /\ requests' = IF usePg THEN PgAfterGetAndDelete(token)
                                   ELSE InMemoryAfterGet(token)
           /\ hs' = [hs EXCEPT ![h] =
                       [Idle EXCEPT !.pc = IF usePg THEN "c_check" ELSE "c_delete",
                                    !.kind = "confirm", !.slug = slug, !.token = token,
                                    !.pending = r, !.tokenCase = TokenCase(token),
                                    !.old = Old(token)]]
    /\ UNCHANGED <<usePg, now, pages, slugsUsed, issued, bookings, outbox, purged>>

\* In memory, after `await this.get(token)`: `if (request) this.requests.delete(token)`.
ConfirmDelete(h) ==
    /\ hs[h].pc = "c_delete"
    /\ requests' = IF Found(hs[h].pending) THEN Remove(requests, hs[h].token) ELSE requests
    /\ hs' = [hs EXCEPT ![h].pc = "c_check"]
    /\ UNCHANGED <<usePg, now, pages, slugsUsed, issued, bookings, outbox, purged>>

\* `if (!pending || pending.slug !== slug)` answers link-expired; else pagesStore.get(slug).
ConfirmCheck(h) ==
    /\ hs[h].pc = "c_check"
    /\ IF ~Found(hs[h].pending) \/ hs[h].pending.slug # hs[h].slug
       THEN /\ hs' = [hs EXCEPT ![h] = Done("confirm", RLinkExpired)]
            /\ UNCHANGED pages
       ELSE /\ hs' = [hs EXCEPT ![h].pc = "c_notify", ![h].page = PageFound(hs[h].slug),
                               ![h].tokenCase = "none"]
            /\ pages' = PagesAfterGet(hs[h].slug)
    /\ UNCHANGED <<usePg, now, slugsUsed, requests, issued, bookings, outbox, purged>>

\* `ownerEmail`: only with a pool; `addr` says that the page's row holds an
\* encrypted notification email and that decrypt succeeded.
OwnerEmail(addr) == usePg /\ addr

\* `if (!page)` answers page-expired. Else, inside the try block: the owner
\* notification, whose failure is caught by the outer catch (502), and then the
\* call of pagesStore.getPageId(slug), which in memory runs get(slug) at once.
ConfirmNotify(h, addr, sent) ==
    /\ hs[h].pc = "c_notify"
    /\ LET slug == hs[h].slug
           mail == OwnerEmail(addr)
       IN  IF ~hs[h].page
           THEN /\ hs' = [hs EXCEPT ![h] = Done("confirm", RPageExpired)]
                /\ UNCHANGED <<pages, outbox>>
           ELSE IF mail /\ ~sent
           THEN /\ hs' = [hs EXCEPT ![h] = Done("confirm", RError)]
                /\ UNCHANGED <<pages, outbox>>
           ELSE /\ outbox' = IF mail
                             THEN outbox \cup {[kind |-> "owner", token |-> hs[h].token]}
                             ELSE outbox
                /\ IF usePg
                   THEN /\ hs' = [hs EXCEPT ![h].pc = "c_pageid"]
                        /\ UNCHANGED pages
                   ELSE /\ hs' = [hs EXCEPT ![h].pc = "c_book",
                                   ![h].pageId = IF PageFound(slug) THEN slug ELSE ""]
                        /\ pages' = PagesAfterGet(slug)
    /\ UNCHANGED <<usePg, now, slugsUsed, requests, issued, bookings, purged>>

\* PgPagesStore.getPageId: SELECT id ... WHERE slug = $1 AND expires_at > NOW()
ConfirmPageId(h) ==
    /\ hs[h].pc = "c_pageid"
    /\ hs' = [hs EXCEPT ![h].pc = "c_book",
                        ![h].pageId = IF PageFound(hs[h].slug) THEN hs[h].slug ELSE ""]
    /\ UNCHANGED <<usePg, now, pages, slugsUsed, requests, issued, bookings, outbox, purged>>

\* `if (pageId) await bookingsStore.create(...)` inside its own try/catch: an
\* INSERT that fails is logged; the answer is the confirmation page either way.
ConfirmBook(h, dbOk) ==
    /\ hs[h].pc = "c_book"
    /\ bookings' = IF hs[h].pageId # "" /\ (dbOk \/ ~usePg)
                   THEN Append(bookings, [pageId |-> hs[h].pageId, token |-> hs[h].token])
                   ELSE bookings
    /\ hs' = [hs EXCEPT ![h] = Done("confirm", RConfirmed)]
    /\ UNCHANGED <<usePg, now, pages, slugsUsed, requests, issued, outbox, purged>>

\* ------------------------------------------ SchedulingPage.tsx: allSlots
\* Dates are minutes since a Monday 00:00 local time, in a zone without
\* daylight-saving shifts; the server's ISO strings name the same instants.
Midnight(t) == t - (t % MinutesPerDay)

\* The day of the week counted from Monday (0) instead of from Sunday.
GetDayFromMonday(t) == (t \div MinutesPerDay) % 7

\* Date.getDay(): 0 is Sunday, the epoch's day 0 a Monday
GetDay(t) == ((t \div MinutesPerDay) + 1) % 7

\* toDateStr(day): the local calendar date, here the day's number
ToDateStr(t) == t \div MinutesPerDay

EarliestStart == viewNow + page.minNoticeHours * 60
MaxDate == viewNow + page.dateRangeDays * MinutesPerDay
Day == Midnight(viewNow) + dayOffset * MinutesPerDay
\* dayStart built without its hour: the day's midnight.
DayStartAtMidnight == Day

DayStart == Day + WorkdayStartHour * 60
DayEnd == Day + WorkdayEndHour * 60

\* isBusy testing the slot's start only.
IsBusyAtStart(start, end) ==
    \E i \in 1..Len(page.busySlots) :
        page.busySlots[i].start <= start /\ page.busySlots[i].end > start

\* isBusy: page.busySlots.some(slot => s < end && e > start)
IsBusy(start, end) ==
    \E i \in 1..Len(page.busySlots) :
        page.busySlots[i].start < end /\ page.busySlots[i].end > start

\* The notice test against `now` instead of earliestStart.
TooEarlyBeforeNow(start) == start < viewNow

\* `if (start < earliestStart) continue`
TooEarly(start) == start < EarliestStart

\* axios.get resolves and setPage runs; useMemo then starts allSlots.
LoadPage(data, t) ==
    /\ gpc = "nopage"
    /\ page' = data
    /\ viewNow' = t
    /\ dayOffset' = 0
    /\ allSlots' = <<>>
    /\ gpc' = "day"
    /\ UNCHANGED <<slotStart, slots>>

\* One turn of `while (dayOffset < dateRangeDays + 14)` up to the for loop.
DayStep ==
    /\ gpc = "day"
    /\ IF ~(dayOffset < page.dateRangeDays + 14) \/ Day > MaxDate
       THEN /\ gpc' = "done"
            /\ UNCHANGED <<dayOffset, slotStart, slots>>
       ELSE IF GetDay(Day) \in {0, 6} /\ ~page.includeWeekends
       THEN /\ dayOffset' = dayOffset + 1
            /\ UNCHANGED <<gpc, slotStart, slots>>
       ELSE /\ slots' = <<>>
            /\ slotStart' = DayStart
            /\ gpc' = "slot"
            /\ UNCHANGED dayOffset
    /\ UNCHANGED <<page, viewNow, allSlots>>

\* One turn of the for loop, or its exit: map.set(toDateStr(day), slots).
SlotStep ==
    /\ gpc = "slot"
    /\ LET duration == page.defaultDurationMinutes
           slotInterval == duration + page.bufferMinutes
           start == slotStart
           end == slotStart + duration
       IN  IF slotStart + duration <= DayEnd
           THEN /\ slots' = IF ~TooEarly(start) /\ ~IsBusy(start, end)
                            THEN Append(slots, [start |-> start, end |-> end])
                            ELSE slots
                /\ slotStart' = slotStart + slotInterval
                /\ UNCHANGED <<dayOffset, allSlots, gpc>>
           ELSE /\ allSlots' = Append(allSlots, [date |-> ToDateStr(Day), slots |-> slots])
                /\ dayOffset' = dayOffset + 1
                /\ gpc' = "day"
                /\ UNCHANGED <<slotStart, slots>>
    /\ UNCHANGED <<page, viewNow>>

\* The page data and clock readings the generator is run on.
Durations == {30, 60}
Buffers == {0, 15}
MinNotices == {0, 8}
NowChoices ==
    { 3 * MinutesPerDay + 8 * 60,               \* a Thursday, 08:00
      4 * MinutesPerDay + 12 * 60 + 10,         \* a Friday, 12:10
      5 * MinutesPerDay + 16 * 60 + 45,         \* a Saturday, 16:45
      7 * MinutesPerDay }                       \* a Monday, 00:00
BusyChoices(t) ==
    LET m == Midnight(t) IN
    { <<>>,
      <<[start |-> m + 10 * 60 + 15, end |-> m + 10 * 60 + 45]>>,
      <<[start |-> m + MinutesPerDay + 10 * 60, end |-> m + MinutesPerDay + 10 * 60 + 30]>>,
      <<[start |-> m + 16 * 60, end |-> m + MinutesPerDay + 9 * 60 + 30],
        [start |-> m + 3 * MinutesPerDay + 12 * 60, end |-> m + 3 * MinutesPerDay + 12 * 60 + 1]>>,
      <<[start |-> m + 2 * MinutesPerDay + 9 * 60, end |-> m + 2 * MinutesPerDay + 17 * 60]>> }
PageDatas(t) ==
    [slug : {"p"}, defaultDurationMinutes : Durations, bufferMinutes : Buffers,
     dateRangeDays : 1..MaxRangeDays, minNoticeHours : MinNotices,
     includeWeekends : BOOLEAN, busySlots : BusyChoices(t)]

\* ------------------------------------------------- services/calendar.ts
\* Instants are hours since a Monday 00:00 UTC: hour h of day d.
H(d, h) == d * HoursPerDay + h

\* Date.toISOString(): the UTC date, then the time of day.
ToISOString(t) == <<t \div HoursPerDay, t % HoursPerDay>>

\* toISOString().split("T")[0]
ISODate(t) == ToISOString(t)[1]

\* a.localeCompare(b) < 0 on two ISO strings
ISOBefore(a, b) == a[1] < b[1] \/ (a[1] = b[1] /\ a[2] < b[2])

\* rrule's Frequency enum
RRule_YEARLY == 0
RRule_WEEKLY == 2
RRule_DAILY == 3

\* The time from one occurrence to the next at interval 1 (a year of 365 days).
Period(freq) ==
    CASE freq = RRule_DAILY -> HoursPerDay
      [] freq = RRule_WEEKLY -> 7 * HoursPerDay
      [] freq = RRule_YEARLY -> 365 * HoursPerDay

\* An event without RRULE.
NoRule == [form |-> "none"]

\* freqMap[rrule.freq.toUpperCase()]; -1 stands for undefined
FreqMap(name) ==
    CASE name = "YEARLY" -> RRule_YEARLY
      [] name = "WEEKLY" -> RRule_WEEKLY
      [] name = "DAILY" -> RRule_DAILY
      [] OTHER -> -1

\* `freqMap[...] || RRule.WEEKLY`: undefined and 0 are falsy.
ObjectFreq(name) ==
    IF FreqMap(name) = -1 \/ FreqMap(name) = 0 THEN RRule_WEEKLY ELSE FreqMap(name)

\* RRule.fromString(cleanStr) is given no dtstart: rrule takes the clock.
StringDtstart(e) == parseNow

\* The options rrule expands for event e, by the form its rrule arrives in:
\* "parsed" is node-ical's RRule (dtstart the event's start), "string" goes
\* through RRule.fromString, "object" through parseRRule's option mapping.
\* A rule is [form, freq, interval, count, until]: freq a name ("" absent),
\* interval and count 0 when absent, until -1 when absent.
RuleOptions(e) ==
    LET r == e.rrule IN
    [dtstart |-> IF r.form = "string" THEN StringDtstart(e) ELSE e.start,
     freq |-> IF r.form = "object"
              THEN (IF r.freq = "" THEN RRule_WEEKLY ELSE ObjectFreq(r.freq))
              ELSE FreqMap(r.freq),
     interval |-> IF r.interval = 0 THEN 1 ELSE r.interval,
     count |-> r.count,
     until |-> r.until]

\* RRule.fromString throws on a string without FREQ ("Invalid frequency").
RuleThrows(e) == e.rrule.form = "string" /\ FreqMap(e.rrule.freq) = -1

\* Transparency with an absent property read as free.
TranspDefaultFree(e) == IF e.transparency = "" THEN "TRANSPARENT" ELSE e.transparency

\* `event.transp || event.transparency || "OPAQUE"`
Transp(e) == IF e.transparency = "" THEN "OPAQUE" ELSE e.transparency

\* `if (transp === "TRANSPARENT") continue`
SkippedAsFree(e) == Transp(e) = "TRANSPARENT"

\* The exdates set: the UTC dates of the event's EXDATE values.
Exdates(e) == {ISODate(x) : x \in e.exdate}

\* The single-event test as the half-open overlap test.
SingleOverlapsHalfOpen(e) == e.start < endDate /\ e.end > startDate

\* `if (eventStart <= endDate && eventEnd >= startDate)`
SingleOverlaps(e) == e.start <= endDate /\ e.end >= startDate

\* The between test that never finds an occurrence too late.
TooLateNever(c) == FALSE

\* rrule.between(startDate, endDate, true): an occurrence after endDate ends
\* the iteration.
TooLate(c) == c > endDate

\* The busy slot pushed for an interval of the event at position pos; `ev` is
\* history (the feed's number and the event's place in it).
BusySlot(start, end, pos) == [start |-> start, end |-> end, ev |-> pos]

\* The loop over the occurrences: those whose UTC date is in exdates are
\* skipped, the others pushed when
\* `occurrenceEnd >= startDate && occurrence <= endDate`.
OccurrenceSlots(e, occs, pos) ==
    LET duration == e.end - e.start
        kept == SelectSeq(occs, LAMBDA o :
                    /\ ISODate(o) \notin Exdates(e)
                    /\ o + duration >= startDate /\ o <= endDate)
    IN  [i \in 1..Len(kept) |-> BusySlot(kept[i], kept[i] + duration, pos)]

\* busySlots.sort((a, b) => a.start.localeCompare(b.start)): a stable sort, here
\* by insertion of each element after the elements not greater than it.
RECURSIVE SortByStart(_)
SortByStart(seq) ==
    IF seq = <<>> THEN <<>>
    ELSE LET n == Len(seq)
             head == SortByStart(SubSeq(seq, 1, n - 1))
             x == seq[n]
             k == Cardinality({i \in 1..Len(head) :
                     ~ISOBefore(ToISOString(x.start), ToISOString(head[i].start))})
         IN  SubSeq(head, 1, k) \o <<x>> \o SubSeq(head, k + 1, Len(head))

\* The place of the event in hand.
Pos == idx

\* The catch block with the busy slots pushed so far thrown away.
DroppedOnRuleError(bs) == <<>>

\* The catch block logs the error: busySlots stays as it was.
KeptOnRuleError(bs) == bs

\* GET /api/pages/:slug computes the window from the clock, and
\* fetchAndParseCalendar gets the feed and parses it.
StartFetch(w, f, clk) ==
    /\ cpc = "idle"
    /\ startDate' = w[1]
    /\ endDate' = w[2]
    /\ feed' = f
    /\ parseNow' = clk
    /\ idx' = 1
    /\ busySlots' = <<>>
    /\ cpc' = "loop"
    /\ UNCHANGED <<cand, left, occ, result, logged>>

\* One event of the for loop, up to the call of between for a recurring one.
EventStep ==
    /\ cpc = "loop"
    /\ idx <= Len(feed)
    /\ LET e == feed[idx] IN
       IF SkippedAsFree(e)
       THEN /\ idx' = idx + 1
            /\ UNCHANGED <<busySlots, cand, left, occ, logged, cpc>>
       ELSE IF e.rrule # NoRule
       THEN IF RuleThrows(e)
            THEN /\ logged' = logged \cup {Pos}
                 /\ busySlots' = KeptOnRuleError(busySlots)
                 /\ idx' = idx + 1
                 /\ UNCHANGED <<cand, left, occ, cpc>>
            ELSE /\ cand' = RuleOptions(e).dtstart
                 /\ left' = RuleOptions(e).count
                 /\ occ' = <<>>
                 /\ cpc' = "iter"
                 /\ UNCHANGED <<busySlots, idx, logged>>
       ELSE /\ busySlots' = IF SingleOverlaps(e)
                            THEN Append(busySlots, BusySlot(e.start, e.end, Pos))
                            ELSE busySlots
            /\ idx' = idx + 1
            /\ UNCHANGED <<cand, left, occ, logged, cpc>>
    /\ UNCHANGED <<startDate, endDate, parseNow, feed, result>>

\* One step of rrule.between's iteration: the rule's count or until, or an
\* occurrence after the window, ends it, and the occurrences found are pushed.
IterStep ==
    /\ cpc = "iter"
    /\ LET e == feed[idx]
           o == RuleOptions(e)
           exhausted == o.count > 0 /\ left = 0
           pastUntil == o.until >= 0 /\ cand > o.until
       IN  IF exhausted \/ pastUntil \/ TooLate(cand)
           THEN /\ busySlots' = busySlots \o OccurrenceSlots(e, occ, Pos)
                /\ idx' = idx + 1
                /\ cpc' = "loop"
                /\ UNCHANGED <<cand, left, occ>>
           ELSE /\ occ' = IF cand >= startDate THEN Append(occ, cand) ELSE occ
                /\ left' = IF o.count > 0 THEN left - 1 ELSE left
                /\ cand' = cand + o.interval * Period(o.freq)
                /\ UNCHANGED <<busySlots, idx, cpc>>
    /\ UNCHANGED <<startDate, endDate, parseNow, feed, result, logged>>

\* After the loop: busySlots is sorted and returned, and the route answers with
\* it.
SortAndReturn ==
    /\ cpc = "loop"
    /\ idx > Len(feed)
    /\ result' = SortByStart(busySlots)
    /\ cpc' = "done"
    /\ UNCHANGED <<startDate, endDate, parseNow, feed, idx, busySlots, cand, left,
                   occ, logged>>

\* ------------------------------------------------ page creation and update
\* A calendar URL is its protocol and the kind of its host: a domain name with
\* a dot, or a dotted IPv4 literal of a private range (10.0.0.1).
Url(protocol, host) == [protocol |-> protocol, host |-> host]

Urls == {Url("https:", "name"), Url("http:", "name"), Url("https:", "ip")}

\* What dns.promises.lookup answers for a domain name.
Addresses == {"public", "private"}

IsIpAddress(host) == host = "ip"

\* isValidCalendarUrl of routes/pages.ts: http or https, no IP literal, no
\* local name.
IsValidCalendarUrl(u) == u.protocol \in {"http:", "https:"} /\ ~IsIpAddress(u.host)

\* isValidCalendarUrl of routes/dashboard.ts: http or https, no local name, a
\* dot in the host (an IPv4 literal has dots).
DashIsValidCalendarUrl(u) == u.protocol \in {"http:", "https:"}

IsPrivateIPv4(addr) == addr = "private"

\* isSafeToFetch: https or webcal; an IPv4 literal is tested as it is, a name
\* by the address the lookup gives.
IsSafeToFetch(u, addr) ==
    /\ u.protocol \in {"https:", "webcal:"}
    /\ IF IsIpAddress(u.host) THEN ~IsPrivateIPv4("private") ELSE ~IsPrivateIPv4(addr)

\* A request field that may be absent: <<>> or <<value>>; `x ?? d`.
Opt(x, d) == IF x = <<>> THEN d ELSE x[1]

Min(a, b) == IF a < b THEN a ELSE b
Max(a, b) == IF a > b THEN a ELSE b

\* The network fetches validate...CalendarUrls and fetchAndParse...Calendars
\* make for a list of URLs: axios.get of each, with `checked` telling whether
\* isSafeToFetch had returned true for the URL before.
Fetches(urls, route, checkedUrls) ==
    {[url |-> urls[i], route |-> route, checked |-> urls[i] \in checkedUrls] : i \in 1..Len(urls)}

\* A stored page.
Row(owner, duration, buffer, days, urls) ==
    [owner |-> owner, defaultDurationMinutes |-> duration, bufferMinutes |-> buffer,
     dateRangeDays |-> days, calendarUrls |-> urls, live |-> TRUE]

\* POST /api/pages: `body.dateRangeDays && body.dateRangeDays > 0 ?
\* Math.min(body.dateRangeDays, 180) : 60`.
AnonDateRangeDays(b) ==
    IF b.dateRangeDays # <<>> /\ b.dateRangeDays[1] > 0
    THEN Min(b.dateRangeDays[1], 180) ELSE 60

\* POST /api/pages, the whole handler: the URLs pass isValidCalendarUrl, are
\* fetched for validation, and the page is stored with the settings asked.
AnonCreate(b, isValid) ==
    /\ Len(stored) < MaxPages
    /\ Len(b.calendarUrls) > 0
    /\ \A i \in 1..Len(b.calendarUrls) : IsValidCalendarUrl(b.calendarUrls[i])
    /\ fetched' = Fetches(b.calendarUrls, "POST /api/pages", safe)
    /\ stored' = IF isValid
                 THEN Append(stored, Row("anonymous",
                                         Opt(b.defaultDurationMinutes, 30),
                                         Opt(b.bufferMinutes, 0),
                                         AnonDateRangeDays(b),
                                         b.calendarUrls))
                 ELSE stored
    /\ UNCHANGED <<safe, creators, patch>>

\* POST /api/pages/validate: the URLs pass isValidCalendarUrl and are fetched.
AnonValidate(urls) ==
    /\ Len(urls) > 0
    /\ \A i \in 1..Len(urls) : IsValidCalendarUrl(urls[i])
    /\ fetched' = Fetches(urls, "POST /api/pages/validate", safe)
    /\ UNCHANGED <<stored, safe, creators, patch>>

\* GET /api/pages/:slug of a stored page that has not expired: its URLs are
\* fetched.
ViewPage(id) ==
    /\ id \in 1..Len(stored)
    /\ stored[id].live
    /\ fetched' = Fetches(stored[id].calendarUrls, "GET /api/pages/:slug", safe)
    /\ UNCHANGED <<stored, safe, creators, patch>>

\* The clock passes a page's expires_at.
ExpirePage(id) ==
    /\ id \in 1..Len(stored)
    /\ stored[id].live
    /\ stored' = [stored EXCEPT ![id].live = FALSE]
    /\ fetched' = {}
    /\ UNCHANGED <<safe, creators, patch>>

\* The pages of the signed-in user with `expires_at > NOW()`.
ActivePages(rows) == {id \in 1..Len(rows) : rows[id].owner = "user" /\ rows[id].live}

\* POST /api/dashboard/pages: `dateRangeDays ? Math.min(dateRangeDays, 180) : 60`.
DashDateRangeDays(b) ==
    IF b.dateRangeDays # <<>> /\ b.dateRangeDays[1] # 0
    THEN Min(b.dateRangeDays[1], 180) ELSE 60

\* The URLs the validation loop has passed to isSafeToFetch with a true answer:
\* the loop returns at the first URL that fails either test.
RECURSIVE CheckedSafe(_, _, _)
CheckedSafe(urls, i, addr) ==
    IF i > Len(urls) \/ ~DashIsValidCalendarUrl(urls[i]) \/ ~IsSafeToFetch(urls[i], addr)
    THEN {}
    ELSE {urls[i]} \cup CheckedSafe(urls, i + 1, addr)

AllAllowed(urls, addr) ==
    \A i \in 1..Len(urls) : DashIsValidCalendarUrl(urls[i]) /\ IsSafeToFetch(urls[i], addr)

\* `if (activeCount >= FREE_MAX_PAGES)`
LimitReached(activeCount) == activeCount >= FREE_MAX_PAGES

\* POST /api/dashboard/pages up to the free-tier test: the URLs are tested and
\* fetched, the user's active pages are counted.
DashCheck(h, b, addr, isValid) ==
    /\ creators[h].pc = "idle"
    /\ \A g \in Handlers : g < h => creators[g].pc # "idle"
    /\ safe' = safe \cup CheckedSafe(b.calendarUrls, 1, addr)
    /\ IF Len(b.calendarUrls) = 0 \/ ~AllAllowed(b.calendarUrls, addr)
       THEN /\ fetched' = {}
            /\ UNCHANGED creators
       ELSE /\ fetched' = Fetches(b.calendarUrls, "POST /api/dashboard/pages", safe')
            /\ creators' = [creators EXCEPT ![h] =
                    IF ~isValid \/ LimitReached(Cardinality(ActivePages(stored)))
                    THEN NoCreate
                    ELSE [pc |-> "counted", body |-> b]]
    /\ UNCHANGED <<stored, patch>>

\* POST /api/dashboard/pages from BEGIN to COMMIT: the page and its URLs are
\* inserted, or the transaction is rolled back on a database error.
DashInsert(h, dbOk) ==
    /\ creators[h].pc = "counted"
    /\ Len(stored) < MaxPages
    /\ LET b == creators[h].body IN
       stored' = IF dbOk
                 THEN Append(stored, Row("user",
                                         Opt(b.defaultDurationMinutes, 30),
                                         Opt(b.bufferMinutes, 0),
                                         DashDateRangeDays(b),
                                         b.calendarUrls))
                 ELSE stored
    /\ creators' = [creators EXCEPT ![h] = NoCreate]
    /\ fetched' = {}
    /\ UNCHANGED <<safe, patch>>

\* The request bodies sent to the create endpoints.
Body(urls, duration, buffer, days) ==
    [calendarUrls |-> urls, defaultDurationMinutes |-> duration,
     bufferMinutes |-> buffer, dateRangeDays |-> days]

SettingChoices ==
    {<< <<>>, <<>>, <<>> >>,            \* the defaults
     << <<0>>, <<0>>, <<200>> >>,
     << <<30>>, <<15>>, <<-5>> >>,
     << <<-15>>, <<>>, <<0>> >>}

CreateBodies ==
    {Body(<<Url("https:", "name")>>, c[1], c[2], c[3]) : c \in SettingChoices}
    \cup {Body(<<u>>, <<>>, <<>>, <<>>) : u \in Urls}

\* PATCH /api/dashboard/pages/:id: `val = Math.max(0, Math.floor(val))`, and for
\* dateRangeDays `Math.min(val, 180)`. The values are whole numbers here.
PatchInt(field, val) ==
    IF field = "dateRangeDays" THEN Min(Max(0, val), 180) ELSE Max(0, val)

IntFields == {"defaultDurationMinutes", "bufferMinutes", "dateRangeDays"}

\* The fields of the body that make an entry of `updates`.
Updates(b) == {f \in IntFields : b[f] # <<>>}

\* The UPDATE statement, on the row as the transaction sees it.
Updated(row, b) ==
    [f \in DOMAIN row |-> IF f \in Updates(b) THEN PatchInt(f, b[f][1]) ELSE row[f]]

\* ROLLBACK left out: the transaction's changes stay on the connection.
NotRolledBack(row) == row

\* ROLLBACK: the transaction's changes are dropped.
RolledBack(row) == <<>>

\* The handler's answer; its locals are dropped, the connection keeps what
\* the transaction has not rolled back or committed.
Answer(resp, row) == [NoPatch EXCEPT !.pc = "done", !.id = patch.id, !.row = row, !.resp = resp]

\* The handler up to BEGIN: the ownership test, the updates built, `No fields
\* to update`. The pool hands out the one connection; BEGIN on a connection
\* whose transaction was left open goes on in that transaction.
PatchBegin(id, b) ==
    /\ patch.pc \in {"idle", "done"}
    /\ IF ~(id \in 1..Len(stored) /\ stored[id].owner = "user")
       THEN patch' = [patch EXCEPT !.pc = "done", !.id = id, !.resp = "404"]
       ELSE IF Updates(b) = {} /\ b.calendarUrls = <<>>
       THEN patch' = [patch EXCEPT !.pc = "done", !.id = id, !.resp = "400 no fields"]
       ELSE patch' = [pc |-> "update", id |-> id, body |-> b,
                      row |-> IF patch.row = <<>> THEN stored[id] ELSE patch.row,
                      resp |-> "none"]
    /\ fetched' = {}
    /\ UNCHANGED <<stored, safe, creators>>

\* The UPDATE of the scalar settings inside the transaction.
PatchUpdate(dbOk) ==
    /\ patch.pc = "update"
    /\ IF Updates(patch.body) = {}
       THEN patch' = [patch EXCEPT !.pc = "urls"]
       ELSE IF dbOk
       THEN patch' = [patch EXCEPT !.pc = "urls", !.row = Updated(patch.row, patch.body)]
       ELSE patch' = Answer("500", RolledBack(patch.row))
    /\ fetched' = {}
    /\ UNCHANGED <<stored, safe, creators>>

\* The replacement of the page's calendar URLs inside the transaction.
PatchUrls(addr, dbOk) ==
    /\ patch.pc = "urls"
    /\ IF patch.body.calendarUrls = <<>>
       THEN /\ patch' = [patch EXCEPT !.pc = "commit"]
            /\ UNCHANGED safe
       ELSE LET urls == patch.body.calendarUrls[1] IN
            IF Len(urls) = 0
            THEN /\ patch' = Answer("400", RolledBack(patch.row))
                 /\ UNCHANGED safe
            ELSE /\ safe' = safe \cup CheckedSafe(urls, 1, addr)
                 /\ IF ~AllAllowed(urls, addr)
                    THEN patch' = Answer("400", RolledBack(patch.row))
                    ELSE IF dbOk
                    THEN patch' = [patch EXCEPT !.pc = "commit", !.row.calendarUrls = urls]
                    ELSE patch' = Answer("500", RolledBack(patch.row))
    /\ fetched' = {}
    /\ UNCHANGED <<stored, creators>>

\* COMMIT and `res.json({ ok: true })`, or the catch block.
PatchCommit(dbOk) ==
    /\ patch.pc = "commit"
    /\ IF dbOk
       THEN /\ stored' = [stored EXCEPT ![patch.id] =
                              [patch.row EXCEPT !.live = stored[patch.id].live]]
            /\ patch' = Answer("ok", <<>>)
       ELSE /\ patch' = Answer("500", RolledBack(patch.row))
            /\ UNCHANGED stored
    /\ fetched' = {}
    /\ UNCHANGED <<safe, creators>>

PatchBody(duration, buffer, days, urls) ==
    [defaultDurationMinutes |-> duration, bufferMinutes |-> buffer,
     dateRangeDays |-> days, calendarUrls |-> urls]

PatchBodies ==
    {PatchBody(<<0>>, <<>>, <<>>, <<>>),
     PatchBody(<<>>, <<>>, <<200>>, << <<Url("https:", "name")>> >>),
     PatchBody(<<45>>, <<>>, <<>>, << <<Url("http:", "name")>> >>),
     PatchBody(<<-15>>, <<5>>, <<0>>, << <<>> >>),
     PatchBody(<<>>, <<>>, <<>>, <<>>),
     PatchBody(<<>>, <<>>, <<>>, << <<Url("https:", "name"), Url("https:", "ip")>> >>)}

\* --------------------------------------------------------- specification
vars == <<wfVars, slotVars, calVars, dashVars>>

Next ==
    \/ \E t \in Instants : Tick(t) /\ UNCHANGED <<slotVars, calVars, dashVars>>
    \/ \E slug \in PageSlugs, ttl \in ExpiryChoices : CreatePage(slug, ttl) /\ UNCHANGED <<slotVars, calVars, dashVars>>
    \/ PurgePages /\ UNCHANGED <<slotVars, calVars, dashVars>>
    \/ PurgeRequests /\ UNCHANGED <<slotVars, calVars, dashVars>>
    \/ \E h \in Handlers, slug \in Slugs : SubmitLookup(h, slug) /\ UNCHANGED <<slotVars, calVars, dashVars>>
    \/ \E h \in Handlers, b \in Bodies : SubmitValidate(h, b) /\ UNCHANGED <<slotVars, calVars, dashVars>>
    \/ \E h \in Handlers, sent \in BOOLEAN : SubmitSend(h, sent) /\ UNCHANGED <<slotVars, calVars, dashVars>>
    \/ \E h \in Handlers, slug \in Slugs, token \in Tokens : ConfirmGet(h, slug, token) /\ UNCHANGED <<slotVars, calVars, dashVars>>
    \/ \E h \in Handlers : ConfirmDelete(h) /\ UNCHANGED <<slotVars, calVars, dashVars>>
    \/ \E h \in Handlers : ConfirmCheck(h) /\ UNCHANGED <<slotVars, calVars, dashVars>>
    \/ \E h \in Handlers, addr \in BOOLEAN, sent \in BOOLEAN : ConfirmNotify(h, addr, sent) /\ UNCHANGED <<slotVars, calVars, dashVars>>
    \/ \E h \in Handlers : ConfirmPageId(h) /\ UNCHANGED <<slotVars, calVars, dashVars>>
    \/ \E h \in Handlers, dbOk \in BOOLEAN : ConfirmBook(h, dbOk) /\ UNCHANGED <<slotVars, calVars, dashVars>>

Spec == Init /\ [][Next]_vars

\* The scheduling page alone: one page load and the slot generation it starts.
SlotNext ==
    \/ \E t \in NowChoices : \E data \in PageDatas(t) : LoadPage(data, t) /\ UNCHANGED <<wfVars, calVars, dashVars>>
    \/ DayStep /\ UNCHANGED <<wfVars, calVars, dashVars>>
    \/ SlotStep /\ UNCHANGED <<wfVars, calVars, dashVars>>

SlotSpec == Init /\ [][SlotNext]_vars

\* Under weak fairness of the pending-request purge timer (setInterval).
LiveSpec == Spec /\ WF_vars(PurgeRequests /\ UNCHANGED <<slotVars, calVars, dashVars>>)

\* The calendar read path: one page view's fetchAndParseCalendar call.
Single(st, en, tr) ==
    [start |-> st, end |-> en, transparency |-> tr, rrule |-> NoRule, exdate |-> {}]

Rule(form, freq, interval, count, until) ==
    [form |-> form, freq |-> freq, interval |-> interval, count |-> count,
     until |-> until]

Recurring(st, en, tr, r, ex) ==
    [start |-> st, end |-> en, transparency |-> tr, rrule |-> r, exdate |-> ex]

RuleForms == {"parsed", "string", "object"}

\* The window of a page view: from the clock to dateRangeDays days later.
Windows == {<<H(0, 8), H(20, 8)>>, <<H(0, 8), H(10, 8)>>}

SingleChoices ==
    {Single(H(1, 9), H(1, 10), ""),             \* inside the window
     Single(H(1, 9), H(1, 10), "OPAQUE"),
     Single(H(1, 9), H(1, 10), "TRANSPARENT"),
     Single(H(0, 7), H(0, 8), ""),              \* ends at the window's start
     Single(H(0, 7), H(0, 9), ""),              \* spans the window's start
     Single(H(0, 5), H(0, 6), ""),              \* before the window
     Single(H(10, 8), H(10, 9), ""),            \* starts at the shorter window's end
     Single(H(20, 8), H(20, 9), "")}            \* starts at the longer window's end

DailyFive(form, ex) ==
    Recurring(H(1, 9), H(1, 10), "", Rule(form, "DAILY", 0, 5, -1), ex)

RecurringChoices ==
    {DailyFive(form, ex) : form \in RuleForms, ex \in {{}, {H(2, 0)}}}
    \cup {\* every Monday 14:00-15:00, 3 occurrences, the 2nd Monday excepted
          Recurring(H(0, 14), H(0, 15), "", Rule(form, "WEEKLY", 0, 3, -1), {H(7, 14)})
              : form \in RuleForms}
    \cup {Recurring(H(1, 9), H(1, 10), "TRANSPARENT", Rule("parsed", "DAILY", 0, 5, -1), {}),
          \* neither count nor until
          Recurring(H(1, 9), H(1, 10), "", Rule("parsed", "DAILY", 2, 0, -1), {}),
          Recurring(H(1, 9), H(1, 10), "", Rule("string", "DAILY", 0, 0, -1), {}),
          Recurring(H(1, 9), H(1, 10), "", Rule("object", "", 0, 0, -1), {}),
          Recurring(H(1, 9), H(1, 10), "", Rule("object", "WEEKLY", 2, 0, -1), {}),
          Recurring(H(1, 9), H(1, 10), "", Rule("parsed", "YEARLY", 0, 0, -1), {}),
          Recurring(H(1, 9), H(1, 10), "", Rule("object", "YEARLY", 0, 0, -1), {}),
          \* until
          Recurring(H(1, 9), H(1, 10), "", Rule("parsed", "DAILY", 0, 0, H(3, 9)), {}),
          \* a string without FREQ
          Recurring(H(1, 9), H(1, 10), "", Rule("string", "", 0, 0, -1), {}),
          \* daily 07:00-09:00, twice: the first spans the window's start
          Recurring(H(0, 7), H(0, 9), "", Rule("parsed", "DAILY", 0, 2, -1), {})}

EventChoices == SingleChoices \cup RecurringChoices

Feeds == UNION {[1..n -> EventChoices] : n \in 1..MaxEvents}

\* The clock RRule.fromString reads for a rule without DTSTART, relative to the
\* route's `now`: later, the same, or earlier (the library drops the clock's
\* milliseconds, `now` keeps them).
ParseClocks == {-1, 0, 1}

CalNext ==
    \/ \E w \in Windows, f \in Feeds, clk \in ParseClocks :
           StartFetch(w, f, w[1] + clk) /\ UNCHANGED <<wfVars, slotVars, dashVars>>
    \/ EventStep /\ UNCHANGED <<wfVars, slotVars, dashVars>>
    \/ IterStep /\ UNCHANGED <<wfVars, slotVars, dashVars>>
    \/ SortAndReturn /\ UNCHANGED <<wfVars, slotVars, dashVars>>

CalSpec == Init /\ [][CalNext]_vars

\* between() runs to its end once it is called: the loop is synchronous.
CalLiveSpec == CalSpec /\ WF_vars(IterStep /\ UNCHANGED <<wfVars, slotVars, dashVars>>)

\* =============================================================== properties
\* The number of bookings recorded for the request of token t.
BookingsIn(bk, t) == Cardinality({i \in 1..Len(bk) : bk[i].token = t})

\* getAndDelete(t) has returned the request to handler h's Confirm.
Holding(h, t) ==
    /\ hs[h].kind = "confirm"
    /\ hs[h].token = t
    /\ hs[h].pc \in {"c_check", "c_notify", "c_pageid", "c_book"}
    /\ Found(hs[h].pending)

\* Handler h's Confirm found the request it was asked for, under the page's slug.
FoundValid(h) ==
    /\ hs[h].kind = "confirm"
    /\ hs[h].pc \in {"c_check", "c_notify", "c_pageid", "c_book"}
    /\ Found(hs[h].pending)
    /\ hs[h].pending.slug = hs[h].slug

\* C1: for every token, getAndDelete hands the pending request to at most one
\* Confirm, and at most one Booking is ever recorded for it, under every
\* interleaving of the handlers' steps.
C1_ExactlyOnce ==
    \A t \in Tokens :
        /\ Cardinality({h \in Handlers : Holding(h, t)}) <= 1
        /\ BookingsIn(bookings, t) <= 1

\* C2: a Confirm that found a pending request within its TTL has, when it
\* answers, exactly one Booking recorded for that request.
C2_FoundConfirmBooks ==
    [][\A h \in Handlers :
          (FoundValid(h) /\ hs'[h].pc = "done")
              => BookingsIn(bookings', hs[h].token) = 1]_vars

\* C3: when the owner notification fails during the Confirm of a found request
\* whose page is live, the Booking is recorded all the same.
C3_NotifyFailureKeepsBooking ==
    [][\A h \in Handlers :
          (FoundValid(h) /\ hs[h].pc = "c_notify" /\ hs[h].page
              /\ hs'[h] = Done("confirm", RError))
              => BookingsIn(bookings', hs[h].token) >= 1]_vars

\* C4: a Confirm that looks up a request older than the TTL gets nothing from
\* the store, answers that the link has expired, and on its way records no
\* Booking and sends no owner notification, purged or not.
C4_ExpiredRejected ==
    [][\A h \in Handlers :
          /\ hs'[h].old
                => /\ hs'[h].pc \in {"c_delete", "c_check"}
                   /\ ~Found(hs'[h].pending)
          /\ (hs[h].old /\ hs'[h] # hs[h])
                => /\ UNCHANGED <<bookings, outbox>>
                   /\ hs[h].pc = "c_check" => hs'[h] = Done("confirm", RLinkExpired)]_vars

\* In PostgreSQL: one Confirm has looked up the expired request while it was
\* still stored, another after the purge had removed it.
C4_Witness ==
    \E g, h \in Handlers :
        /\ hs[g].pc = "c_check" /\ hs[g].old /\ hs[g].tokenCase = "stored"
        /\ hs[h].pc = "c_check" /\ hs[h].old /\ hs[h].tokenCase = "gone"
        /\ hs[h].token \in purged

\* C5: a Confirm of a token that never existed, of one already consumed or
\* purged, and of one past its TTL all give the one link-expired response.
C5_SameResponse ==
    [][\A h \in Handlers :
          (/\ hs[h].pc = "c_check"
           /\ hs'[h] # hs[h]
           /\ (hs[h].tokenCase \in {"never", "gone"} \/ hs[h].old))
              => hs'[h] = Done("confirm", RLinkExpired)]_vars

\* Two Confirms about to answer: one of a token not yet issued, the other of a
\* request past its TTL that the store still holds.
C5_Witness ==
    \E g, h \in Handlers :
        /\ hs[g].pc = "c_check" /\ hs[g].tokenCase = "never"
        /\ hs[h].pc = "c_check" /\ hs[h].tokenCase = "stored" /\ hs[h].old

\* C6: under weak fairness of the purge timer, a pending request older than
\* the TTL that is still stored is eventually out of the store.
C6_ExpiredEventuallyPurged ==
    \A t \in Tokens :
        (t \in DOMAIN requests /\ now - requests[t].createdAt > TTL_MS)
            ~> (t \notin DOMAIN requests)

\* The purge timer has removed a request older than the TTL.
C6_Witness == \E t \in purged : t \notin DOMAIN requests /\ Old(t)

\* C7: a Submit that is refused (missing fields, invalid email, name, reason
\* or notes out of bounds, unknown or expired page) or dropped by the honeypot
\* ends there: it stores no pending request, issues no token, sends no email.
C7_RejectedSubmitIssuesNothing ==
    [][\A h \in Handlers :
          /\ (hs[h].pc = "s_validate" /\ hs'[h] # hs[h]) =>
                \A b \in {x \in Bodies : BadBody(x)} :
                    SubmitValidate(h, b)
                        => /\ UNCHANGED <<requests, issued, outbox>>
                           /\ hs'[h].pc = "done"
                           /\ hs'[h].resp \in {R202, R400}
          /\ (Free(h) /\ hs'[h].kind = "submit" /\ hs'[h] # hs[h]) =>
                \A slug \in Slugs :
                    (~PageFound(slug) /\ SubmitLookup(h, slug))
                        => /\ UNCHANGED <<requests, issued, outbox>>
                           /\ hs'[h] = Done("submit", R404)]_vars

\* A Submit has been refused while the store holds an earlier pending request
\* whose confirmation link was sent.
C7_Witness ==
    \E h \in Handlers :
        /\ hs[h] = Done("submit", R400)
        /\ requests # <<>>
        /\ outbox # {}

\* C8 as stated: when the confirmation-link send fails, Submit answers as it
\* does when the send succeeds, and the pending request stays stored.
C8_SendFailureNotPropagated ==
    [][\A h \in Handlers :
          SubmitSend(h, FALSE)
              => /\ hs'[h].resp = R202
                 /\ hs[h].token \in DOMAIN requests => requests'[hs[h].token] = requests[hs[h].token]]_vars

\* C8 as the code has it: when the confirmation-link send fails, Submit answers
\* 502, and the pending request stays stored as it was.
C8_SendFailureReported ==
    [][\A h \in Handlers :
          SubmitSend(h, FALSE)
              => /\ hs'[h] = Done("submit", R502)
                 /\ UNCHANGED <<requests, issued>>
                 /\ hs[h].token \in DOMAIN requests => requests'[hs[h].token] = requests[hs[h].token]]_vars

\* A Submit has answered 502 and the pending request it created is stored.
C8_Witness ==
    \E h \in Handlers :
        /\ hs[h] = Done("submit", R502)
        /\ requests # <<>>
        /\ outbox = {}

\* The slots allSlots has emitted so far: those of the days set in the map and
\* those of the day in hand.
EmittedSlots ==
    {slots[i] : i \in 1..Len(slots)}
    \cup UNION {{allSlots[k].slots[i] : i \in 1..Len(allSlots[k].slots)} : k \in 1..Len(allSlots)}

\* C9: no emitted slot s and busy interval b of the page have
\* s.start < b.end and s.end > b.start.
C9_NoSlotOverlapsBusy ==
    gpc # "nopage" =>
        \A s \in EmittedSlots : \A i \in 1..Len(page.busySlots) :
            ~(s.start < page.busySlots[i].end /\ s.end > page.busySlots[i].start)

\* The generation has ended with a slot emitted on either side of a busy
\* interval, touching it.
C9_Witness ==
    /\ gpc = "done"
    /\ \E i \in 1..Len(page.busySlots) :
          /\ \E s \in EmittedSlots : s.end = page.busySlots[i].start
          /\ \E s \in EmittedSlots : s.start = page.busySlots[i].end

\* C10: every emitted slot starts at or after now + minNoticeHours.
C10_MinNotice ==
    gpc # "nopage" =>
        \A s \in EmittedSlots : s.start >= viewNow + page.minNoticeHours * 60

\* With minNoticeHours = 0 and `now` inside working hours, the generation has
\* ended with a slot of today that starts within the hour.
C10_Witness ==
    /\ gpc = "done"
    /\ page.minNoticeHours = 0
    /\ viewNow > Midnight(viewNow) + WorkdayStartHour * 60
    /\ \E s \in EmittedSlots :
          /\ ToDateStr(s.start) = ToDateStr(viewNow)
          /\ s.start - viewNow < 60

\* The grid positions of calendar day d that the settings, `now` and the busy
\* intervals of the page allow, written out from the statement of C11.
GridSlots(d) ==
    LET ds == d * MinutesPerDay + WorkdayStartHour * 60
        de == d * MinutesPerDay + WorkdayEndHour * 60
        dur == page.defaultDurationMinutes
        step == page.defaultDurationMinutes + page.bufferMinutes
        ok(g) == /\ g + dur <= de
                 /\ g >= viewNow + page.minNoticeHours * 60
                 /\ \A i \in 1..Len(page.busySlots) :
                       ~(g < page.busySlots[i].end /\ g + dur > page.busySlots[i].start)
    IN  {[start |-> ds + k * step, end |-> ds + k * step + dur] :
            k \in {j \in 0..((de - ds) \div step) : ok(ds + j * step)}}

\* Day d has a single busy interval 10:00-10:30, slots of 30 minutes without
\* buffer, and the notice leaves the whole of its working hours open.
C11_Example(d) ==
    /\ page.defaultDurationMinutes = 30
    /\ page.bufferMinutes = 0
    /\ page.busySlots = <<[start |-> d * MinutesPerDay + 10 * 60,
                           end |-> d * MinutesPerDay + 10 * 60 + 30]>>
    /\ viewNow + page.minNoticeHours * 60 <= d * MinutesPerDay + WorkdayStartHour * 60

\* C11: the slots set for each offered day are exactly the grid positions
\* workdayStart + k * (duration + buffer), each `duration` long, that end by
\* the workday's end, start no earlier than now + minNoticeHours and overlap
\* no busy interval, each once and in ascending order; in the example of one
\* busy interval 10:00-10:30 with duration 30 and buffer 0 the day has 15.
C11_ExactGrid ==
    gpc # "nopage" =>
        \A k \in 1..Len(allSlots) :
            LET e == allSlots[k] IN
            /\ {e.slots[i] : i \in 1..Len(e.slots)} = GridSlots(e.date)
            /\ \A i, j \in 1..Len(e.slots) : i < j => e.slots[i].start < e.slots[j].start
            /\ C11_Example(e.date) => Len(e.slots) = 15

\* The generation has ended and the example's day is in the map with 15 slots.
C11_Witness ==
    /\ gpc = "done"
    /\ \E k \in 1..Len(allSlots) :
          C11_Example(allSlots[k].date) /\ Len(allSlots[k].slots) = 15

\* The calendar days from today to today + dateRangeDays inclusive, less the
\* Saturdays and Sundays when includeWeekends is false (day 0 is a Monday).
OfferedDays ==
    {d \in (viewNow \div MinutesPerDay)..((viewNow \div MinutesPerDay) + page.dateRangeDays) :
        page.includeWeekends \/ d % 7 \notin {5, 6}}

Emitted(i) == SelectSeq(result, LAMBDA b : b.ev = i)

EmittedStarts(i) == {Emitted(i)[k].start : k \in 1..Len(Emitted(i))}

\* The positions of the feed's non-recurring events that are not marked free.
SingleBusy == {i \in 1..Len(feed) : feed[i].rrule = NoRule /\ feed[i].transparency # "TRANSPARENT"}

\* C14 as stated: a non-recurring busy event yields one busy interval if and only
\* if eventStart < windowEnd and eventEnd > windowStart (half-open overlap);
\* an event ending exactly at windowStart or starting exactly at windowEnd
\* yields none.
C14_HalfOpenOverlap ==
    cpc = "done" =>
        \A i \in SingleBusy :
            (Len(Emitted(i)) = 1) <=> (feed[i].start < endDate /\ feed[i].end > startDate)

\* C14 amended: a non-recurring busy event yields one busy interval, its own
\* span, if and only if eventStart <= windowEnd and eventEnd >= windowStart
\* (both ends inclusive), and none otherwise.
C14_ClosedOverlap ==
    cpc = "done" =>
        \A i \in SingleBusy :
            IF feed[i].start <= endDate /\ feed[i].end >= startDate
            THEN /\ Len(Emitted(i)) = 1
                 /\ Emitted(i)[1].start = feed[i].start
                 /\ Emitted(i)[1].end = feed[i].end
            ELSE Len(Emitted(i)) = 0

\* A view returned one interval for an event that ends exactly at the window's
\* start, and one for an event that starts exactly at the window's end.
C14_Witness ==
    /\ cpc = "done"
    /\ Len(feed) = 2
    /\ feed[1].rrule = NoRule /\ feed[1].end = startDate /\ Len(Emitted(1)) = 1
    /\ feed[2].rrule = NoRule /\ feed[2].start = endDate /\ Len(Emitted(2)) = 1

\* The positions of the feed's recurring events that are not marked free and
\* whose rule names a frequency.
RecurringBusy ==
    {i \in 1..Len(feed) : /\ feed[i].rrule # NoRule
                          /\ feed[i].transparency # "TRANSPARENT"
                          /\ FreqMap(feed[i].rrule.freq) # -1}

\* The occurrences the event's rule describes: from the event's start, every
\* interval periods of the named frequency, within count and until.
RuleOccurrences(e) ==
    LET r == e.rrule
        step == (IF r.interval = 0 THEN 1 ELSE r.interval) * Period(FreqMap(r.freq))
    IN  {e.start + k * step : k \in
            {k \in 0..((endDate - e.start) \div step) :
                /\ r.count > 0 => k < r.count
                /\ r.until >= 0 => e.start + k * step <= r.until}}

\* The occurrences inside the window whose date is not excepted.
ExpectedStarts(e) ==
    {o \in RuleOccurrences(e) : o >= startDate /\ o <= endDate /\ ISODate(o) \notin Exdates(e)}

\* C15: no busy interval emitted for a recurring event starts on a date in the
\* event's exception-date set, and every non-excepted occurrence inside the
\* window is emitted (a weekly Monday rule of 3 occurrences with the 2nd
\* Monday excepted gives exactly the 1st and 3rd Mondays).
C15_ExceptionDates ==
    cpc = "done" =>
        \A i \in RecurringBusy :
            /\ \A o \in EmittedStarts(i) : ISODate(o) \notin Exdates(feed[i])
            /\ EmittedStarts(i) = ExpectedStarts(feed[i])

\* The positions of the busy events with a daily rule of count 5 whose start D
\* and D + 10 days are inside the window.
DailyFiveCovered ==
    {i \in RecurringBusy : /\ feed[i].rrule.freq = "DAILY"
                           /\ feed[i].rrule.count = 5
                           /\ feed[i].rrule.interval = 0
                           /\ feed[i].rrule.until = -1
                           /\ startDate <= feed[i].start
                           /\ feed[i].start + 10 * HoursPerDay <= endDate}

\* C16: a daily rule with count 5 starting at day D, expanded over a window
\* covering D..D+10, yields exactly 5 occurrences when the exception set is
\* empty and never an occurrence on an excepted date, in each of the three forms
\* a rule arrives in.
C16_DailyCountFive ==
    cpc = "done" =>
        \A i \in DailyFiveCovered :
            /\ feed[i].exdate = {} => Len(Emitted(i)) = 5 /\ Cardinality(EmittedStarts(i)) = 5
            /\ \A o \in EmittedStarts(i) : ISODate(o) \notin Exdates(feed[i])

\* The recurring events whose rule is expanded from the event's own start with
\* the frequency it names: every form but the rule string and the raw-option
\* YEARLY.
ExpandedAsWritten(i) ==
    /\ i \in RecurringBusy
    /\ feed[i].rrule.form # "string"
    /\ ~(feed[i].rrule.form = "object" /\ feed[i].rrule.freq = "YEARLY")

\* C17: an event is busy unless its transparency is TRANSPARENT. An event
\* marked TRANSPARENT never produces a busy interval, recurring or not; an event
\* without the property is expanded like one marked OPAQUE: a single event that
\* meets the window gives its interval, a recurring one its occurrences.
C17_TransparencyDefault ==
    cpc = "done" =>
        \A i \in 1..Len(feed) :
            /\ feed[i].transparency = "TRANSPARENT" => Len(Emitted(i)) = 0
            /\ feed[i].transparency \in {"", "OPAQUE"} =>
                /\ (feed[i].rrule = NoRule /\ feed[i].start <= endDate /\ feed[i].end >= startDate)
                       => Len(Emitted(i)) = 1
                /\ ExpandedAsWritten(i) => EmittedStarts(i) = ExpectedStarts(feed[i])

\* A view of a feed with an event without the property that was returned as
\* busy and a recurring event marked TRANSPARENT that gave nothing.
C17_Witness ==
    /\ cpc = "done"
    /\ Len(feed) = 2
    /\ feed[1].transparency = "" /\ feed[1].rrule = NoRule /\ Len(Emitted(1)) = 1
    /\ feed[2].transparency = "TRANSPARENT" /\ feed[2].rrule # NoRule /\ Len(Emitted(2)) = 0

\* rrule.between(startDate, endDate, true) as a whole: the occurrences of the
\* rule built by the code, in order, from the first one inside the window.
Between(e) ==
    LET o == RuleOptions(e)
        step == o.interval * Period(o.freq)
        ks == {k \in 0..((endDate - o.dtstart) \div step) :
                  /\ o.count > 0 => k < o.count
                  /\ o.until >= 0 => o.dtstart + k * step <= o.until
                  /\ o.dtstart + k * step >= startDate}
        first == CHOOSE k \in ks : \A j \in ks : k <= j
    IN  [n \in 1..Cardinality(ks) |-> o.dtstart + (first + n - 1) * step]

\* What one event adds to busySlots.
Contribution(e, pos) ==
    IF SkippedAsFree(e) THEN <<>>
    ELSE IF e.rrule # NoRule
         THEN (IF RuleThrows(e) THEN <<>> ELSE OccurrenceSlots(e, Between(e), pos))
         ELSE (IF SingleOverlaps(e) THEN <<BusySlot(e.start, e.end, pos)>> ELSE <<>>)

\* The list fetchAndParseCalendar returns for a feed.
RECURSIVE Collected(_, _)
Collected(f, n) == IF n = 0 THEN <<>> ELSE Collected(f, n - 1) \o Contribution(f[n], n)

Returned(f) == SortByStart(Collected(f, Len(f)))

\* A list of busy slots as the page receives it: start and end only.
Spans(seq) == [k \in 1..Len(seq) |-> <<seq[k].start, seq[k].end>>]

\* The feed without the events whose rule raises an error.
WithoutFaulty(f) == SelectSeq(f, LAMBDA e : ~(e.rrule # NoRule /\ ~SkippedAsFree(e) /\ RuleThrows(e)))

\* C18: an error raised while expanding one event's rule removes only that
\* event's contribution: the view still returns a list, the faulty event has
\* no interval in it, and the list is the one returned for the same feed
\* without the faulty event.
C18_ErrorIsolated ==
    (cpc = "done" /\ logged # {}) =>
        /\ \A i \in logged : Len(Emitted(i)) = 0
        /\ Spans(result) = Spans(Returned(WithoutFaulty(feed)))

\* A view whose second event raised an error and whose first event's interval
\* was returned.
C18_Witness ==
    /\ cpc = "done"
    /\ logged = {2}
    /\ Len(Emitted(1)) >= 1

\* The rule in hand has neither count nor until.
Unbounded == feed[idx].rrule.count = 0 /\ feed[idx].rrule.until = -1

C20_SortedNoDuplicates ==
    cpc = "done" =>
        /\ \A j \in 1..(Len(result) - 1) : result[j].start <= result[j + 1].start
        /\ \A j, k \in 1..Len(result) :
               (result[j].start = result[k].start /\ result[j].end = result[k].end) => j = k
\* ------------------------------------------- page creation and update claims
\* The create endpoints, the page view and the clock.
CreateNext ==
    \/ \E b \in CreateBodies, isValid \in BOOLEAN :
           AnonCreate(b, isValid) /\ UNCHANGED <<wfVars, slotVars, calVars>>
    \/ \E u \in Urls : AnonValidate(<<u>>) /\ UNCHANGED <<wfVars, slotVars, calVars>>
    \/ \E id \in 1..MaxPages : ViewPage(id) /\ UNCHANGED <<wfVars, slotVars, calVars>>
    \/ \E id \in 1..MaxPages : ExpirePage(id) /\ UNCHANGED <<wfVars, slotVars, calVars>>
    \/ \E h \in Handlers, b \in CreateBodies, addr \in Addresses, isValid \in BOOLEAN :
           DashCheck(h, b, addr, isValid) /\ UNCHANGED <<wfVars, slotVars, calVars>>
    \/ \E h \in Handlers, dbOk \in BOOLEAN :
           DashInsert(h, dbOk) /\ UNCHANGED <<wfVars, slotVars, calVars>>

CreateSpec == Init /\ [][CreateNext]_vars

\* C21: every network fetch of a calendar URL, at page creation, at URL
\* validation and at each view of a stored page, is preceded by an
\* isSafeToFetch check of the same URL that returned true.
C21_FetchAfterSafeCheck == \A f \in fetched : f.checked

\* C22: after any sequence of page creations and updates, every stored page
\* has defaultDurationMinutes > 0 and dateRangeDays within 1..180.
C22_StoredSettingsInRange ==
    \A id \in 1..Len(stored) :
        /\ stored[id].defaultDurationMinutes > 0
        /\ stored[id].dateRangeDays \in 1..180

\* C23: a free-tier user never has more than FREE_MAX_PAGES active pages,
\* however the count checks and the inserts of concurrent creates interleave.
C23_FreeTierLimit == Cardinality(ActivePages(stored)) <= FREE_MAX_PAGES

\* ------------------------------------------------------------ page expiry
\* now >= expiresAt of the page created under this slug: the page is still in
\* the store with its expiry reached, or a get or purge has removed it (only
\* expired pages are ever removed, and a slug is handed out once).
Expired(slug) ==
    /\ slug \in slugsUsed
    /\ slug \in DOMAIN pages => now >= pages[slug].expiresAt

\* The handler that takes the step.
Acting(h) == hs'[h] # hs[h]

\* C24 as stated: once now >= expiresAt the page is dead for every operation:
\* no lookup returns it and, in a step taken then, no PendingRequest is created
\* for it, no owner notification is sent and no Booking is created for it.
C24_DeadOnceExpired ==
    [][\A s \in PageSlugs : Expired(s) =>
          /\ ~PageFound(s)
          /\ \A t \in DOMAIN requests' \ DOMAIN requests : requests'[t].slug # s
          /\ \A h \in Handlers :
                (hs[h].kind = "confirm" /\ hs[h].slug = s /\ Acting(h))
                    => (outbox' = outbox /\ bookings' = bookings)]_vars

\* C24, amended: a page lookup made once now >= expiresAt never returns the
\* page, in either store, and the page stays dead; every PendingRequest and
\* every owner notification comes from a handler whose page lookup returned the
\* page, every Booking from one whose getPageId lookup did.
C24_DeadAtLookup ==
    [][/\ \A s \in PageSlugs : Expired(s) =>
            /\ Expired(s)'
            /\ ~PageFound(s)
            /\ \A h \in Handlers :
                  /\ (hs'[h].page /\ hs'[h].slug = s) => (hs[h].page /\ hs[h].slug = s)
                  /\ hs'[h].pageId = s => hs[h].pageId = s
       /\ \A h \in Handlers : Acting(h) =>
            /\ DOMAIN requests' \ DOMAIN requests # {} => hs[h].page
            /\ outbox' \ outbox # {} /\ hs[h].kind = "confirm" => hs[h].page
            /\ bookings' # bookings => hs[h].pageId # ""]_vars

\* A Confirm of a request submitted before the expiry was refused because the
\* page had expired, and nothing was booked.
C24_Witness ==
    /\ Expired("p")
    /\ \E h \in Handlers : hs[h] = Done("confirm", RPageExpired)
    /\ bookings = <<>>

\* ---------------------------------------------------- slots and the window
\* C26: every slot offered lies wholly inside the window the server computed
\* the busy intervals for: slot.start >= now and
\* slot.end <= now + dateRangeDays * 24 h.
C26_SlotsInsideWindow ==
    \A i \in 1..Len(allSlots) : \A j \in 1..Len(allSlots[i].slots) :
        /\ allSlots[i].slots[j].start >= viewNow
        /\ allSlots[i].slots[j].end <= MaxDate

\* ------------------------------------------- slot generation on stored pages
\* Requests to POST /api/pages whose settings the endpoint stores as they are.
ViewedBodies ==
    {Body(<<Url("https:", "name")>>, <<d>>, buf, <<n>>) :
        d \in {0, 30}, buf \in {<<>>, <<15>>}, n \in 1..MaxRangeDays}

\* The rows POST /api/pages stores for them.
StoredRows ==
    {Row("anonymous", Opt(b.defaultDurationMinutes, 30), Opt(b.bufferMinutes, 0),
         AnonDateRangeDays(b), b.calendarUrls) : b \in ViewedBodies}

\* The clock of the page view: a Thursday, 08:00.
ViewClock == 3 * MinutesPerDay + 8 * 60

\* GET /api/pages/:slug answers the stored settings with the busy slots; the
\* minimum notice is the page's default of 8 hours.
StoredPageDatas(t) ==
    {[slug |-> "p", defaultDurationMinutes |-> r.defaultDurationMinutes,
      bufferMinutes |-> r.bufferMinutes, dateRangeDays |-> r.dateRangeDays,
      minNoticeHours |-> 8, includeWeekends |-> w, busySlots |-> bs] :
        r \in StoredRows, w \in BOOLEAN, bs \in BusyChoices(t)}

\* The scheduling page of a stored page: one load and the generation it starts.
ViewNext ==
    \/ \E data \in StoredPageDatas(ViewClock) : LoadPage(data, ViewClock) /\ UNCHANGED <<wfVars, calVars, dashVars>>
    \/ DayStep /\ UNCHANGED <<wfVars, calVars, dashVars>>
    \/ SlotStep /\ UNCHANGED <<wfVars, calVars, dashVars>>

\* useMemo runs the loops to their end once it has started: they are
\* synchronous.
ViewLiveSpec ==
    /\ Init /\ [][ViewNext]_vars
    /\ WF_vars(DayStep /\ UNCHANGED <<wfVars, calVars, dashVars>>)
    /\ WF_vars(SlotStep /\ UNCHANGED <<wfVars, calVars, dashVars>>)

\* C25: slot generation terminates for the settings of every page the create
\* and update endpoints store, a duration of 0 minutes with a buffer of 0
\* minutes included.
C25_GenerationTerminates == (gpc = "day") ~> (gpc = "done")

\* ------------------------------------------- occurrences at the window's start
\* C27: every occurrence of a recurring busy event that overlaps the window
\* yields a busy interval, an occurrence that started before windowStart and
\* is in progress at windowStart included, as a non-recurring event with the
\* same start and end does.
C27_OccurrencesLikeSingles ==
    cpc = "done" =>
        \A i \in RecurringBusy :
            LET duration == feed[i].end - feed[i].start IN
            \A o \in RuleOccurrences(feed[i]) :
                (/\ ISODate(o) \notin Exdates(feed[i])
                 /\ o <= endDate /\ o + duration >= startDate)
                    => o \in EmittedStarts(i)

\* ----------------------------------------------- the two pending-request stores
\* The request of token t as either store holds it: the in-memory store keeps
\* createdAt, the PostgreSQL row expires_at = createdAt + TTL_MS.
AsStoredByBoth(t) ==
    [slug |-> requests[t].slug, createdAt |-> requests[t].createdAt,
     expiresAt |-> requests[t].createdAt + TTL_MS]

\* C28: the in-memory and the PostgreSQL pending-request store answer found or
\* not found alike for every token at every clock value, a request whose age
\* is exactly the TTL included.
C28_StoresAgree ==
    \A t \in DOMAIN requests :
        ~InMemoryExpired(AsStoredByBoth(t)) <=> PgLive(AsStoredByBoth(t))

\* ------------------------------------------------ Confirm under another slug
\* getAndDelete has returned the request of token t to handler h's Confirm,
\* whose URL carries another slug than the request's.
Mismatched(h, t) == Holding(h, t) /\ hs[h].pending.slug # hs[h].slug

\* The request of token t is gone for good: it was created, the store holds it
\* no more, no Confirm under the request's own slug has it in hand and no
\* Booking is recorded for it.
Consumed(t) ==
    /\ t \in DOMAIN issued
    /\ t \notin DOMAIN requests
    /\ \A h \in Handlers :
          ~(hs[h].kind = "confirm" /\ hs[h].token = t /\ hs[h].pc # "done"
                /\ Found(hs[h].pending) /\ hs[h].pending.slug = hs[h].slug)
    /\ BookingsIn(bookings, t) = 0

\* C29: a Confirm whose URL slug differs from the pending request's slug answers
\* that the link has expired or was used and records no Booking, yet it has
\* removed the pending request: when it answers the request is gone for good,
\* and a request gone for good stays so, so that no Booking is ever recorded
\* for it, whichever Confirm of the token follows.
C29_MismatchConsumes ==
    [][\A t \in Tokens :
          /\ Consumed(t) => Consumed(t)'
          /\ \A h \in Handlers :
                (Mismatched(h, t) /\ Acting(h))
                    => /\ hs'[h] = Done("confirm", RLinkExpired)
                       /\ bookings' = bookings
                       /\ Consumed(t)']_vars

\* ------------------------------------------------------- dashboard PATCH
\* The dashboard's create and update endpoints of one signed-in user.
PatchNext ==
    \/ \E h \in Handlers, b \in CreateBodies, addr \in Addresses, isValid \in BOOLEAN :
           DashCheck(h, b, addr, isValid) /\ UNCHANGED <<wfVars, slotVars, calVars>>
    \/ \E h \in Handlers, dbOk \in BOOLEAN :
           DashInsert(h, dbOk) /\ UNCHANGED <<wfVars, slotVars, calVars>>
    \/ \E id \in 1..MaxPages, b \in PatchBodies :
           PatchBegin(id, b) /\ UNCHANGED <<wfVars, slotVars, calVars>>
    \/ \E dbOk \in BOOLEAN : PatchUpdate(dbOk) /\ UNCHANGED <<wfVars, slotVars, calVars>>
    \/ \E addr \in Addresses, dbOk \in BOOLEAN :
           PatchUrls(addr, dbOk) /\ UNCHANGED <<wfVars, slotVars, calVars>>
    \/ \E dbOk \in BOOLEAN : PatchCommit(dbOk) /\ UNCHANGED <<wfVars, slotVars, calVars>>

PatchSpec == Init /\ [][PatchNext]_vars

\* The row with every update the body asks for: the scalar settings as the
\* handler normalises them, and the URL list replaced when one is given.
Applied(row, b) ==
    [f \in DOMAIN row |->
        IF f \in IntFields /\ b[f] # <<>> THEN PatchInt(f, b[f][1])
        ELSE IF f = "calendarUrls" /\ b.calendarUrls # <<>> THEN b.calendarUrls[1]
        ELSE row[f]]

\* C30: a dashboard PATCH is all-or-nothing. When it answers 400 or 500 after
\* its transaction has begun, the page's settings and URL list are as they
\* were and nothing of the transaction is left on the connection; when it
\* answers ok, the page has all the scalar updates asked and the whole new
\* URL list, and no other page has changed.
C30_PatchAllOrNothing ==
    [][(patch.pc \in {"update", "urls", "commit"} /\ patch'.pc = "done") =>
          IF patch'.resp = "ok"
          THEN stored' = [stored EXCEPT ![patch.id] = Applied(stored[patch.id], patch.body)]
          ELSE /\ patch'.resp \in {"400", "500"}
               /\ stored' = stored
               /\ patch'.row = <<>>]_vars

\* A PATCH that had updated the duration inside its transaction answered 400
\* for its URL list, and the page still has the duration it had.
C30_Witness ==
    /\ patch.pc = "done"
    /\ patch.resp = "400"
    /\ patch.id \in 1..Len(stored)
    /\ stored[patch.id].defaultDurationMinutes = 30
    /\ stored[patch.id].calendarUrls = <<Url("https:", "name")>>

====
